---- MODULE Spec2Model ----
(***************************************************************************)
(* A model of the Google Meet agent: the tool catalog loader and the tool  *)
(* invoker of google_meet_agent/tools.py, the connection check of          *)
(* google_meet_agent/auth.py and the conversation loop of                  *)
(* google_meet_agent/agent.py.  The remote integration platform, the       *)
(* reasoning model and the content fetch are the environment: every call   *)
(* to them draws its answer from a small set.                              *)
(***************************************************************************)
EXTENDS Integers, Sequences, FiniteSets, TLC

(***************************************************************************)
(* Bounds of the model.                                                    *)
(***************************************************************************)
\* largest turn budget a caller passes or configures
MaxTurns == 2
\* largest number of content blocks of one model response
MaxBlocks == 2
\* largest number of tool requests the model makes within one query
MaxToolCalls == 2
\* largest number of connected accounts the platform lists
MaxAccounts == 2
\* largest number of remote-integration clients one agent creates
MaxClients == 2
\* largest number of items of a catalog of operations
MaxItems == 3

(***************************************************************************)
(* Python values.  An optional value is a sequence of length at most one.  *)
(***************************************************************************)
None == <<>>

Some(v) == <<v>>

\* status_code = None of an exception
NoStatus == 0

\* a string in a place where a dict may stand as well
Str(s) == [str |-> s]

(***************************************************************************)
(* Strings: str.startswith, the `in` test on strings, str.lower.           *)
(***************************************************************************)
StartsWith(s, p) == Len(s) >= Len(p) /\ SubSeq(s, 1, Len(p)) = p

Contains(s, p) ==
    \E i \in 1..(Len(s) - Len(p) + 1) : SubSeq(s, i, i + Len(p) - 1) = p

LowerChar(c) ==
    CASE c = "A" -> "a" [] c = "B" -> "b" [] c = "C" -> "c" [] c = "D" -> "d"
      [] c = "E" -> "e" [] c = "F" -> "f" [] c = "G" -> "g" [] c = "H" -> "h"
      [] c = "I" -> "i" [] c = "J" -> "j" [] c = "K" -> "k" [] c = "L" -> "l"
      [] c = "M" -> "m" [] c = "N" -> "n" [] c = "O" -> "o" [] c = "P" -> "p"
      [] c = "Q" -> "q" [] c = "R" -> "r" [] c = "S" -> "s" [] c = "T" -> "t"
      [] c = "U" -> "u" [] c = "V" -> "v" [] c = "W" -> "w" [] c = "X" -> "x"
      [] c = "Y" -> "y" [] c = "Z" -> "z" [] OTHER -> c

RECURSIVE Lower(_)
Lower(s) ==
    IF Len(s) = 0 THEN ""
    ELSE LowerChar(SubSeq(s, 1, 1)) \o Lower(SubSeq(s, 2, Len(s)))

(***************************************************************************)
(* exceptions.py: the exception classes and what an except clause catches. *)
(***************************************************************************)
Parent(cls) ==
    CASE cls = "RateLimitError" -> "GoogleMeetAPIError"
      [] cls = "GoogleMeetAPIError" -> "GoogleMeetAgentError"
      [] cls = "ComposioConnectionError" -> "GoogleMeetAgentError"
      [] cls = "AuthConfigNotFoundError" -> "GoogleMeetAgentError"
      [] cls = "OAuthTimeoutError" -> "GoogleMeetAgentError"
      [] cls = "ConnectionExpiredError" -> "GoogleMeetAgentError"
      [] cls = "GoogleMeetAgentError" -> "Exception"
      [] cls = "APIError" -> "Exception"
      [] OTHER -> "Exception"

RECURSIVE IsInstance(_, _)
IsInstance(cls, base) ==
    IF cls = base THEN TRUE
    ELSE IF cls = "Exception" THEN FALSE
    ELSE IsInstance(Parent(cls), base)

Exc(cls, message, status) ==
    [type |-> cls, message |-> message, status_code |-> status]

\* RateLimitError(cause=e): the default message, status_code 429
RateLimitError == Exc("RateLimitError", "Google Meet API rate limit exceeded.", 429)

GoogleMeetAPIError(message, status) == Exc("GoogleMeetAPIError", message, status)

ComposioConnectionError(message) == Exc("ComposioConnectionError", message, NoStatus)

(***************************************************************************)
(* tools.py: names of the integrations and the allow-lists.                *)
(***************************************************************************)
GOOGLEMEET_APP_NAME == "googlemeet"

GOOGLEDRIVE_APP_NAME == "googledrive"

EXPECTED_MEET_TOOLS ==
    { "GOOGLEMEET_LIST_CONFERENCE_RECORDS",
      "GOOGLEMEET_GET_CONFERENCE_RECORD",
      "GOOGLEMEET_LIST_PARTICIPANT_SESSIONS",
      "GOOGLEMEET_GET_PARTICIPANT_SESSION",
      "GOOGLEMEET_GET_TRANSCRIPTS_BY_CONFERENCE_RECORD_ID" }

GOOGLEDRIVE_TOOLS_FOR_NOTES ==
    { "GOOGLEDRIVE_LIST_FILES",
      "GOOGLEDRIVE_DOWNLOAD_FILE",
      "GOOGLEDRIVE_GET_FILE_METADATA" }

\* the integration that owns an operation, by the prefix of its name
OwningApp(tool_slug) ==
    IF StartsWith(tool_slug, "GOOGLEDRIVE_") THEN Some(GOOGLEDRIVE_APP_NAME)
    ELSE IF StartsWith(tool_slug, "GOOGLEMEET_") THEN Some(GOOGLEMEET_APP_NAME)
    ELSE None

(***************************************************************************)
(* The environment of the tool invoker: what the platform answers when the *)
(* connected accounts are listed, what the remote execution of an          *)
(* operation yields, and what the GET of a temporary location yields.      *)
(***************************************************************************)
Apps == {GOOGLEMEET_APP_NAME, GOOGLEDRIVE_APP_NAME, "gmail"}

AccountId(i) == CASE i = 1 -> "ca_1" [] i = 2 -> "ca_2" [] i = 3 -> "ca_3" [] OTHER -> "ca_n"

\* the lists of active accounts: the i-th account has the i-th id
AccountLists ==
    UNION { { [i \in 1..n |-> [id |-> AccountId(i), app |-> f[i]]] : f \in [1..n -> Apps] }
            : n \in 0..MaxAccounts }

\* the listing of the connected accounts: a list, or the call raises
Listings ==
    {[raises |-> TRUE, accounts |-> <<>>]}
      \cup {[raises |-> FALSE, accounts |-> a] : a \in AccountLists}

\* the listing after setup: the Meet account that setup has ensured
SetupListings ==
    {[raises |-> FALSE, accounts |-> <<[id |-> AccountId(1), app |-> GOOGLEMEET_APP_NAME]>>]}

\* A direct call of the tool invoker ("tool") meets every answer of the
\* platform; within a query the answers are one of each kind.
ListingsOf(mode) == IF mode = "tool" THEN Listings ELSE SetupListings

\* messages of the exceptions the remote execution raises
RemoteMessages ==
    { "HTTP 429 Too Many Requests", "Rate Limit hit", "403 Forbidden",
      "File Not Found", "Connection reset", "403 after 429",
      "Permission denied: 404" }

S3URL == "https://s3.example/tmp/notes"

\* the error field of a result: empty, or the message of a failure
ResultErrors == {"", "quota: 429 rate limit", "403 Forbidden"}

\* the results of the remote execution of an operation
DictResults(tool_slug) ==
    { [data |-> [items |-> "records"]] }
      \cup { [data |-> [items |-> "records"], error |-> e] : e \in ResultErrors }
      \cup
    ( IF tool_slug = "GOOGLEDRIVE_DOWNLOAD_FILE"
        THEN { [data |-> [downloaded_file_content |->
                             [s3url |-> S3URL, mimetype |-> "text/plain"]]],
               [data |-> [downloaded_file_content |-> [mimetype |-> "text/plain"]]],
               [downloaded_file_content |-> [s3url |-> S3URL, mimetype |-> "text/plain"]] }
        ELSE {} )

ExecOutcomes(tool_slug) ==
    {[kind |-> "raise", message |-> m] : m \in RemoteMessages}
      \cup {[kind |-> "dict", result |-> r] : r \in DictResults(tool_slug)}
      \cup {[kind |-> "object", repr |-> "ToolExecutionResponse(...)"]}

\* within a query: a rate limit, a missing resource, or a result
QueryExecOutcomes(tool_slug) ==
    { [kind |-> "raise", message |-> "HTTP 429 Too Many Requests"],
      [kind |-> "raise", message |-> "File Not Found"],
      [kind |-> "dict", result |->
          IF tool_slug = "GOOGLEDRIVE_DOWNLOAD_FILE"
              THEN [data |-> [downloaded_file_content |->
                                 [s3url |-> S3URL, mimetype |-> "text/plain"]]]
          ELSE [data |-> [items |-> "records"]]] }

ExecOutcomesOf(mode, tool_slug) ==
    IF mode = "tool" THEN ExecOutcomes(tool_slug) ELSE QueryExecOutcomes(tool_slug)

\* the bodies a GET of the temporary location delivers
Bodies == { <<72, 105>>, <<195, 169>>, <<233>> }

FetchOutcomes ==
    {[kind |-> "ok", body |-> b] : b \in Bodies}
      \cup { [kind |-> "URLError", message |-> "<urlopen error timed out>"],
             [kind |-> "Exception", message |-> "HTTP Error 403: Forbidden"] }

FetchOutcomesOf(mode) ==
    IF mode = "tool" THEN FetchOutcomes ELSE {[kind |-> "ok", body |-> <<72, 105>>]}

(***************************************************************************)
(* tools.py: fetch_file_content_from_url.  A body is a sequence of bytes;  *)
(* it is decoded as UTF-8 and, when that fails, as Latin-1.                *)
(***************************************************************************)
\* the character of a code point, as text
Chr(c) ==
    CASE c = 72 -> "H" [] c = 105 -> "i" [] c = 233 -> "<U+00E9>"
      [] c = 195 -> "<U+00C3>" [] c = 169 -> "<U+00A9>" [] OTHER -> "<U+FFFD>"

IsContinuation(b) == b >= 128 /\ b <= 191

\* the bytes are well-formed UTF-8 (one- and two-byte sequences)
RECURSIVE Utf8Valid(_)
Utf8Valid(body) ==
    IF Len(body) = 0 THEN TRUE
    ELSE IF body[1] < 128 THEN Utf8Valid(Tail(body))
    ELSE IF body[1] >= 194 /\ body[1] <= 223 /\ Len(body) >= 2 /\ IsContinuation(body[2])
        THEN Utf8Valid(Tail(Tail(body)))
    ELSE FALSE

RECURSIVE Utf8Decode(_)
Utf8Decode(body) ==
    IF Len(body) = 0 THEN ""
    ELSE IF body[1] < 128 THEN Chr(body[1]) \o Utf8Decode(Tail(body))
    ELSE Chr((body[1] % 32) * 64 + (body[2] % 64)) \o Utf8Decode(Tail(Tail(body)))

RECURSIVE Latin1Decode(_)
Latin1Decode(body) ==
    IF Len(body) = 0 THEN "" ELSE Chr(body[1]) \o Latin1Decode(Tail(body))

\* mutant: a failed fetch yields an empty text
fetch_file_content_or_empty(url, net) ==
    IF net.kind = "ok"
        THEN IF Utf8Valid(net.body) THEN Utf8Decode(net.body)
             ELSE Latin1Decode(net.body)
    ELSE ""

fetch_file_content_from_url(url, net) ==
    IF net.kind = "ok"
        THEN IF Utf8Valid(net.body) THEN Utf8Decode(net.body)
             ELSE Latin1Decode(net.body)
    ELSE IF net.kind = "URLError" THEN "Error fetching content: " \o net.message
    ELSE "Error: " \o net.message

(***************************************************************************)
(* tools.py: the choice of the connected account.                          *)
(***************************************************************************)
\* the indices of the accounts of an integration (compared in lower case)
LowerApp == [a \in Apps |-> Lower(a)]

AccountsOf(accounts, app_name) ==
    {i \in 1..Len(accounts) : LowerApp[accounts[i].app] = LowerApp[app_name]}

Min(S) == CHOOSE i \in S : \A j \in S : i <= j

get_connected_account_id(listing, app_name) ==
    IF listing.raises THEN None
    ELSE IF listing.accounts = <<>> THEN None
    ELSE IF app_name # None /\ AccountsOf(listing.accounts, app_name[1]) # {}
        THEN Some(listing.accounts[Min(AccountsOf(listing.accounts, app_name[1]))].id)
    ELSE IF AccountsOf(listing.accounts, GOOGLEMEET_APP_NAME) # {}
        THEN Some(listing.accounts[Min(AccountsOf(listing.accounts, GOOGLEMEET_APP_NAME))].id)
    ELSE Some(listing.accounts[1].id)

get_connected_account_for_tool(listing, tool_slug) ==
    IF StartsWith(tool_slug, "GOOGLEDRIVE_")
        THEN get_connected_account_id(listing, Some(GOOGLEDRIVE_APP_NAME))
    ELSE IF StartsWith(tool_slug, "GOOGLEMEET_")
        THEN get_connected_account_id(listing, Some(GOOGLEMEET_APP_NAME))
    ELSE get_connected_account_id(listing, None)

(***************************************************************************)
(* Python dicts are functions on their keys.                               *)
(***************************************************************************)
DictSet(d, k, v) == [x \in (DOMAIN d) \cup {k} |-> IF x = k THEN v ELSE d[x]]

DictDel(d, k) == [x \in (DOMAIN d) \ {k} |-> d[x]]

(***************************************************************************)
(* tools.py: execute_google_meet_tool.  One run of the function body with  *)
(* the answers of the platform to the listing of the accounts (listing),   *)
(* to the remote execution (exec) and to the content fetch (net).  The     *)
(* outcome is a returned value (ret) or a raised exception (exc).          *)
(***************************************************************************)
Raised(e, acct, executed) ==
    [ret |-> None, exc |-> Some(e), connected_account_id |-> acct, executed |-> executed]

Returned(v, acct) ==
    [ret |-> Some(v), exc |-> None, connected_account_id |-> acct, executed |-> TRUE]

\* the except clause of execute_google_meet_tool: the class of a failure
ErrorClass(message) ==
    LET error_msg == Lower(message) IN
    IF Contains(error_msg, "429") \/ Contains(error_msg, "rate limit") THEN "rate_limit"
    ELSE IF Contains(error_msg, "403") \/ Contains(error_msg, "permission") THEN "permission"
    ELSE IF Contains(error_msg, "404") \/ Contains(error_msg, "not found") THEN "not_found"
    ELSE "generic"

\* the class of every message the remote execution raises
ErrorClasses == [m \in RemoteMessages |-> ErrorClass(m)]

MapError(tool_slug, message) ==
    IF ErrorClasses[message] = "rate_limit" THEN RateLimitError
    ELSE IF ErrorClasses[message] = "permission"
        THEN GoogleMeetAPIError(
                 "Permission denied. Ensure you have a Google Workspace account with Meet API access.",
                 403)
    ELSE IF ErrorClasses[message] = "not_found"
        THEN GoogleMeetAPIError("Resource not found: " \o tool_slug, 404)
    ELSE GoogleMeetAPIError("Failed to execute " \o tool_slug \o ": " \o message, NoStatus)

\* the special handling of the file download: the content replaces the location
HasLocation(data) ==
    /\ "downloaded_file_content" \in DOMAIN data
    /\ "s3url" \in DOMAIN data["downloaded_file_content"]
    /\ data["downloaded_file_content"]["s3url"] # ""

ResolveDownload(data, net) ==
    IF HasLocation(data)
        THEN LET downloaded == data["downloaded_file_content"]
                 file_content == fetch_file_content_from_url(downloaded["s3url"], net)
                 d1 == DictSet(data, "file_content", file_content)
                 d2 == DictSet(d1, "content_fetched", TRUE)
             IN  DictSet(d2, "downloaded_file_content", DictDel(downloaded, "s3url"))
    ELSE data

\* mutant: the error of a result goes through the rate-limit rule
HandleResultClassified(tool_slug, result, net, acct) ==
    LET data == IF "data" \in DOMAIN result THEN result["data"] ELSE result
        error == IF "error" \in DOMAIN result THEN result["error"] ELSE ""
    IN  IF error # "" /\ ErrorClass(error) = "rate_limit"
            THEN Raised(RateLimitError, acct, TRUE)
        ELSE IF error # ""
            THEN Raised(GoogleMeetAPIError("API Error: " \o error, NoStatus), acct, TRUE)
        ELSE IF tool_slug = "GOOGLEDRIVE_DOWNLOAD_FILE"
            THEN Returned([success |-> TRUE, data |-> ResolveDownload(data, net)], acct)
        ELSE Returned([success |-> TRUE, data |-> data], acct)

HandleResult(tool_slug, result, net, acct) ==
    LET data == IF "data" \in DOMAIN result THEN result["data"] ELSE result
        error == IF "error" \in DOMAIN result THEN result["error"] ELSE ""
    IN  IF error # ""
            THEN Raised(GoogleMeetAPIError("API Error: " \o error, NoStatus), acct, TRUE)
        ELSE IF tool_slug = "GOOGLEDRIVE_DOWNLOAD_FILE"
            THEN Returned([success |-> TRUE, data |-> ResolveDownload(data, net)], acct)
        ELSE Returned([success |-> TRUE, data |-> data], acct)

execute_google_meet_tool(tool_slug, listing, exec, net) ==
    LET connected_account_id == get_connected_account_for_tool(listing, tool_slug) IN
    IF connected_account_id = None
        THEN IF StartsWith(tool_slug, "GOOGLEDRIVE_")
                THEN Raised(GoogleMeetAPIError(
                         "No active Google Drive connection found. Please set up Google Drive integration.",
                         401), None, FALSE)
             ELSE Raised(GoogleMeetAPIError(
                         "No active Google Meet connection found. Please run setup first.",
                         401), None, FALSE)
    ELSE IF exec.kind = "raise"
        THEN Raised(MapError(tool_slug, exec.message), connected_account_id, TRUE)
    ELSE IF exec.kind = "dict"
        THEN HandleResult(tool_slug, exec.result, net, connected_account_id)
    ELSE Returned([success |-> TRUE, data |-> Str(exec.repr)], connected_account_id)

(***************************************************************************)
(* The retry decorator of execute_google_meet_tool (tenacity).             *)
(***************************************************************************)
stop_after_attempt == 3

wait_multiplier == 1

wait_min == 1

wait_max == 10

\* mutant: every GoogleMeetAPIError is retried
RetriedTypesWithBaseClass == {"ComposioConnectionError", "GoogleMeetAPIError"}

RetriedTypes == {"ComposioConnectionError", "RateLimitError"}

retry_if_exception_type(e) == \E cls \in RetriedTypes : IsInstance(e.type, cls)

RECURSIVE Pow2(_)
Pow2(n) == IF n <= 0 THEN 1 ELSE 2 * Pow2(n - 1)

\* the wait after the attempt with the given number
wait_exponential(attempt_number) ==
    LET w == wait_multiplier * Pow2(attempt_number - 1) IN
    IF w < wait_min THEN wait_min ELSE IF w > wait_max THEN wait_max ELSE w

\* mutant: the retries do not stop after the third attempt
RetriesWithoutStop(outcome, attempt_number) ==
    /\ outcome.exc # None
    /\ retry_if_exception_type(outcome.exc[1])

\* the attempt has failed and another one follows
Retries(outcome, attempt_number) ==
    /\ outcome.exc # None
    /\ retry_if_exception_type(outcome.exc[1])
    /\ attempt_number < stop_after_attempt

(***************************************************************************)
(* tools.py: get_google_meet_tools.  The platform answers the fetch of the *)
(* operations of an integration with a catalog or the fetch raises.        *)
(***************************************************************************)
Item(name) == [name |-> name, description |-> "d"]

MeetCatalogs ==
    { << Item("GOOGLEMEET_CREATE_MEET"), Item("GOOGLEMEET_LIST_CONFERENCE_RECORDS") >> }

DriveCatalogs ==
    { << Item("GOOGLEDRIVE_DELETE_FILE"), Item("GOOGLEDRIVE_DOWNLOAD_FILE") >> }

CatalogFetches(catalogs) ==
    {[raises |-> TRUE, items |-> <<>>]} \cup {[raises |-> FALSE, items |-> c] : c \in catalogs}

\* _get_tool_name of a flat item
get_tool_name(tool) == IF "name" \in DOMAIN tool THEN tool["name"] ELSE ""

\* _tool_to_anthropic of a flat item (_convert_to_anthropic_format)
tool_to_anthropic(tool) ==
    [ name |-> IF get_tool_name(tool) # "" THEN get_tool_name(tool) ELSE "unknown",
      description |-> IF "description" \in DOMAIN tool THEN tool["description"] ELSE "",
      input_schema |-> [type |-> "object"] ]

\* mutant: an operation that occurs again later in the catalog is left out
RECURSIVE MeetDescriptorsDeduplicated(_)
MeetDescriptorsDeduplicated(items) ==
    IF items = <<>> THEN <<>>
    ELSE IF \E i \in 2..Len(items) : items[i] = Head(items)
        THEN MeetDescriptorsDeduplicated(Tail(items))
    ELSE <<tool_to_anthropic(Head(items))>> \o MeetDescriptorsDeduplicated(Tail(items))

RECURSIVE MeetDescriptors(_)
MeetDescriptors(items) ==
    IF items = <<>> THEN <<>>
    ELSE <<tool_to_anthropic(Head(items))>> \o MeetDescriptors(Tail(items))

RECURSIVE DriveDescriptors(_)
DriveDescriptors(items) ==
    IF items = <<>> THEN <<>>
    ELSE IF get_tool_name(Head(items)) # ""
            /\ get_tool_name(Head(items)) \in GOOGLEDRIVE_TOOLS_FOR_NOTES
        THEN <<tool_to_anthropic(Head(items))>> \o DriveDescriptors(Tail(items))
    ELSE DriveDescriptors(Tail(items))

\* mutant: a failure of the fetch of the Drive operations fails the loading
get_google_meet_tools_strict(meet, drive) ==
    IF meet.raises \/ drive.raises
        THEN [ret |-> None,
              exc |-> Some(ComposioConnectionError("Failed to fetch tools: unavailable"))]
    ELSE [ret |-> Some(MeetDescriptors(meet.items) \o DriveDescriptors(drive.items)),
          exc |-> None]

\* one run of the function body: the catalog (ret) or the exception (exc)
get_google_meet_tools(meet, drive) ==
    IF meet.raises
        THEN [ret |-> None,
              exc |-> Some(ComposioConnectionError("Failed to fetch tools: unavailable"))]
    ELSE [ret |-> Some(MeetDescriptors(meet.items)
                        \o (IF drive.raises THEN <<>> ELSE DriveDescriptors(drive.items))),
          exc |-> None]

\* mutant: the loading is not retried
CatalogNeverRetries(outcome, attempt_number) == FALSE

\* the retry decorator of get_google_meet_tools retries ComposioConnectionError
CatalogRetries(outcome, attempt_number) ==
    /\ outcome.exc # None
    /\ IsInstance(outcome.exc[1].type, "ComposioConnectionError")
    /\ attempt_number < stop_after_attempt

(***************************************************************************)
(* auth.py: the connection check of setup.                                 *)
(***************************************************************************)
\* mutant: a listing that fails is taken for a connection
get_existing_connection_assumed(listing, app_name) ==
    IF listing.raises THEN Some([id |-> AccountId(1), app |-> app_name])
    ELSE IF AccountsOf(listing.accounts, app_name) = {} THEN None
    ELSE Some(listing.accounts[Min(AccountsOf(listing.accounts, app_name))])

\* mutant: the first active account, whatever its app
get_first_connection(listing, app_name) ==
    IF listing.raises THEN None
    ELSE IF listing.accounts = <<>> THEN None
    ELSE Some(listing.accounts[1])

\* get_existing_connection: the first active account of the app, if any
get_existing_connection(listing, app_name) ==
    IF listing.raises THEN None
    ELSE IF AccountsOf(listing.accounts, app_name) = {} THEN None
    ELSE Some(listing.accounts[Min(AccountsOf(listing.accounts, app_name))])

\* what initiate_oauth yields: a connection request, or AuthConfigNotFoundError
InitiateOutcomes == {"request", "AuthConfigNotFoundError"}

\* what the wait on the connection request yields
WaitOutcomes ==
    { [kind |-> "account"], [kind |-> "none"],
      [kind |-> "raise", message |-> "Request Timed Out"],
      [kind |-> "raise", message |-> "link expired"],
      [kind |-> "raise", message |-> "Expired link: connection timeout"],
      [kind |-> "raise", message |-> "network unreachable"] }

OAuthTimeoutError ==
    Exc("OAuthTimeoutError", "OAuth flow timed out after 300 seconds. Please try again.", NoStatus)

ConnectionExpiredError ==
    Exc("ConnectionExpiredError",
        "Google Meet connection has expired. Please reconnect your account.", NoStatus)

AuthConfigNotFoundError ==
    Exc("AuthConfigNotFoundError",
        "No googlemeet auth config found. Create one at https://app.composio.dev", NoStatus)

\* mutant: the expiry is looked for before the timeout
wait_for_connection_expiry_first(w) ==
    IF w.kind = "account" THEN [ret |-> Some("account"), exc |-> None]
    ELSE IF w.kind = "none" THEN [ret |-> None, exc |-> Some(OAuthTimeoutError)]
    ELSE LET error_msg == Lower(w.message) IN
         IF Contains(error_msg, "expired")
             THEN [ret |-> None, exc |-> Some(ConnectionExpiredError)]
         ELSE IF Contains(error_msg, "timeout") \/ Contains(error_msg, "timed out")
             THEN [ret |-> None, exc |-> Some(OAuthTimeoutError)]
         ELSE [ret |-> None,
               exc |-> Some(ComposioConnectionError(
                          "Failed while waiting for OAuth: " \o w.message))]

\* mutant: a wait that yields nothing returns nothing
wait_for_connection_or_none(w) ==
    IF w.kind = "account" THEN [ret |-> Some("account"), exc |-> None]
    ELSE [ret |-> None, exc |-> None]

\* wait_for_connection: the account (ret) or the exception (exc)
wait_for_connection(w) ==
    IF w.kind = "account" THEN [ret |-> Some("account"), exc |-> None]
    ELSE IF w.kind = "none" THEN [ret |-> None, exc |-> Some(OAuthTimeoutError)]
    ELSE LET error_msg == Lower(w.message) IN
         IF Contains(error_msg, "timeout") \/ Contains(error_msg, "timed out")
             THEN [ret |-> None, exc |-> Some(OAuthTimeoutError)]
         ELSE IF Contains(error_msg, "expired")
             THEN [ret |-> None, exc |-> Some(ConnectionExpiredError)]
         ELSE [ret |-> None,
               exc |-> Some(ComposioConnectionError(
                          "Failed while waiting for OAuth: " \o w.message))]

(***************************************************************************)
(* agent.py: the state of one GoogleMeetAgent and of the call in progress. *)
(***************************************************************************)
VARIABLES
    pc,                \* where the call in progress stands ("idle": no call)
    call,              \* the public method in progress: "setup" or "query"
    outcome,           \* how the last call ended: a value or an exception
    is_setup,          \* self._is_setup
    composio,          \* self._composio
    tools,             \* self._tools
    anthropic_client,  \* self._anthropic_client
    load_attempt,      \* attempt number of get_google_meet_tools
    catalog_fetch,     \* the last run of get_google_meet_tools: answers and outcome
    max_turns,         \* the turn budget of the query in progress
    turn,              \* the loop variable of _run_agent_loop
    messages,          \* the transcript of the query
    stop_reason,       \* response.stop_reason of the last response ("": none yet)
    content,           \* response.content of the last response
    idx,               \* position of the block in execution
    tool_results,      \* tool_results of the turn in progress
    model_calls,       \* calls of messages.create made by the query
    tool_calls,        \* tool requests the model has made in the query
    inv,               \* the invocation of execute_google_meet_tool in progress
    conn,              \* the run of ensure_google_meet_connection, until setup goes on
    frames             \* the locals of the queries that run interleaved

vars ==
    << pc, call, outcome, is_setup, composio, tools, anthropic_client, load_attempt,
       catalog_fetch, max_turns, turn, messages, stop_reason, content, idx, tool_results,
       model_calls, tool_calls, inv, conn, frames >>

\* the state of the agent and of the one call in progress
instanceVars ==
    << pc, call, outcome, is_setup, composio, tools, anthropic_client, load_attempt,
       catalog_fetch, max_turns, turn, messages, stop_reason, content, idx, tool_results,
       model_calls, tool_calls, inv, conn >>

agentVars == << is_setup, composio, tools, anthropic_client >>

loopVars ==
    << max_turns, turn, messages, stop_reason, content, idx, tool_results, model_calls,
       tool_calls >>

\* Settings.agent_max_turns as configured: the default turn budget of a query
agent_max_turns == MaxTurns

SENTINEL == "Max turns reached without completing the task."

AgentResponse(success, data, error) == [success |-> success, data |-> data, error |-> error]

NoOutcome == [kind |-> "none"]

ReturnedValue(v) == [kind |-> "returned", value |-> v]

RaisedException(e) == [kind |-> "raised", exc |-> e]

\* no invocation of the tool invoker in progress
NoInvocation ==
    [ status |-> "none", tool_slug |-> "", attempt_number |-> 0, executions |-> 0,
      waits |-> <<>>, failures |-> <<>>, listing_raises |-> FALSE, has_owner |-> FALSE,
      account_app |-> None, exec |-> None, net |-> None, result |-> None ]

\* ensure_google_meet_connection has not run in the call
NoConn ==
    [ listed |-> FALSE, listing_raises |-> FALSE, existing |-> None, initiated |-> 0,
      waited |-> 0, wait_outcome |-> None, connected_account |-> None ]

\* ensure_google_meet_connection has returned the existing connection
ExistingConn ==
    LET account == [id |-> AccountId(1), app |-> GOOGLEMEET_APP_NAME] IN
    [ listed |-> TRUE, listing_raises |-> FALSE, existing |-> Some(account), initiated |-> 0,
      waited |-> 0, wait_outcome |-> None, connected_account |-> Some(account) ]

Init ==
    /\ pc = "idle"
    /\ call = "none"
    /\ outcome = NoOutcome
    /\ is_setup = FALSE
    /\ composio = None
    /\ tools = None
    /\ anthropic_client = None
    /\ load_attempt = 0
    /\ catalog_fetch = None
    /\ max_turns = 0
    /\ turn = 0
    /\ messages = <<>>
    /\ stop_reason = ""
    /\ content = <<>>
    /\ idx = 0
    /\ tool_results = <<>>
    /\ model_calls = 0
    /\ tool_calls = 0
    /\ inv = NoInvocation
    /\ conn = NoConn
    /\ frames = <<>>

(***************************************************************************)
(* agent.py: setup.  A call ends by returning (pc = "idle", outcome a      *)
(* value) or by raising to the caller (pc = "idle", outcome an exception). *)
(***************************************************************************)
\* Composio(api_key=...): a new client, told from the ones before it by its number
NewClient(c) == Some(IF c = None THEN 1 ELSE c[1] + 1)

\* the number of clients created is within the bound of the model
ClientsLeft == IF composio = None THEN TRUE ELSE composio[1] < MaxClients

\* mutant: setup does not look at _is_setup
NeverSetUp == FALSE

\* if self._is_setup / if not self._is_setup
AlreadySetUp == is_setup

\* the call in progress raises e to its caller
Raise(e) ==
    /\ pc' = "idle"
    /\ outcome' = RaisedException(e)

\* setup(), called directly: nothing to do when the agent is set up
Setup ==
    /\ pc = "idle"
    /\ UNCHANGED frames
    /\ call' = "setup"
    /\ load_attempt' = 0
    /\ catalog_fetch' = None
    /\ max_turns' = 0
    /\ turn' = 0
    /\ messages' = <<>>
    /\ stop_reason' = ""
    /\ content' = <<>>
    /\ idx' = 0
    /\ tool_results' = <<>>
    /\ model_calls' = 0
    /\ tool_calls' = 0
    /\ inv' = NoInvocation
    /\ conn' = NoConn
    /\ IF AlreadySetUp
          THEN /\ pc' = "idle"
               /\ outcome' = ReturnedValue(None)
               /\ UNCHANGED agentVars
          ELSE /\ pc' = "ensure_conn"
               /\ outcome' = NoOutcome
               /\ ClientsLeft
               /\ composio' = NewClient(composio)
               /\ UNCHANGED << is_setup, tools, anthropic_client >>

(***************************************************************************)
(* agent.py: query, up to the first call of the reasoning model.           *)
(***************************************************************************)
\* the max_turns arguments of query: None or a number
MaxTurnsArgs == {None} \cup {Some(n) : n \in 0..MaxTurns}

\* max_turns or self._settings.agent_max_turns
EffectiveMaxTurns(arg) ==
    IF arg = None THEN agent_max_turns
    ELSE IF arg[1] = 0 THEN agent_max_turns
    ELSE arg[1]

UserMessage == "Show me my recent meetings"

\* the first statement of _run_agent_loop
InitialMessages == << [role |-> "user", content |-> UserMessage] >>

Query(arg) ==
    /\ pc = "idle"
    /\ UNCHANGED frames
    /\ call' = "query"
    /\ outcome' = NoOutcome
    /\ load_attempt' = 0
    /\ catalog_fetch' = None
    /\ max_turns' = EffectiveMaxTurns(arg)
    /\ turn' = 0
    /\ stop_reason' = ""
    /\ content' = <<>>
    /\ idx' = 0
    /\ tool_results' = <<>>
    /\ model_calls' = 0
    /\ tool_calls' = 0
    /\ inv' = NoInvocation
    /\ conn' = NoConn
    /\ IF AlreadySetUp
          THEN /\ pc' = "await_model"
               /\ messages' = InitialMessages
               /\ UNCHANGED agentVars
          ELSE /\ pc' = "ensure_conn"
               /\ messages' = <<>>
               /\ ClientsLeft
               /\ composio' = NewClient(composio)
               /\ UNCHANGED << is_setup, tools, anthropic_client >>

\* ensure_google_meet_connection up to the wait: the existing connection is
\* used, or the OAuth flow is initiated
EnsureConnection ==
    /\ pc = "ensure_conn"
    /\ UNCHANGED frames
    /\ \E listing \in Listings, init \in InitiateOutcomes :
          LET existing == get_existing_connection(listing, GOOGLEMEET_APP_NAME)
              checked == [NoConn EXCEPT !.listed = TRUE,
                                        !.listing_raises = listing.raises,
                                        !.existing = existing]
          IN  IF existing # None
                  THEN /\ conn' = [checked EXCEPT !.connected_account = existing]
                       /\ pc' = "load_tools"
                       /\ load_attempt' = 1
                       /\ UNCHANGED outcome
              ELSE IF init = "request"
                  THEN /\ conn' = [checked EXCEPT !.initiated = 1]
                       /\ pc' = "oauth_wait"
                       /\ UNCHANGED << load_attempt, outcome >>
              ELSE /\ conn' = [checked EXCEPT !.initiated = 1]
                   /\ Raise(AuthConfigNotFoundError)
                   /\ UNCHANGED load_attempt
    /\ UNCHANGED << call, agentVars, catalog_fetch, loopVars, inv >>

WaitForConnection ==
    /\ pc = "oauth_wait"
    /\ UNCHANGED frames
    /\ \E w \in WaitOutcomes :
          LET out == wait_for_connection(w) IN
          /\ conn' = [conn EXCEPT !.waited = @ + 1, !.wait_outcome = Some(w),
                                   !.connected_account = out.ret]
          /\ IF out.exc = None
                 THEN /\ pc' = "load_tools"
                      /\ load_attempt' = 1
                      /\ UNCHANGED outcome
             ELSE /\ Raise(out.exc[1])
                  /\ UNCHANGED load_attempt
    /\ UNCHANGED << call, agentVars, catalog_fetch, loopVars, inv >>

\* one attempt of get_google_meet_tools and, when it returns, the rest of
\* setup; query goes on to _run_agent_loop
LoadToolsFrom(meet_fetches, drive_fetches) ==
    /\ pc = "load_tools"
    /\ UNCHANGED frames
    /\ conn' = NoConn
    /\ \E meet \in meet_fetches, drive \in drive_fetches :
          LET out == get_google_meet_tools(meet, drive) IN
          /\ catalog_fetch' = Some([meet |-> meet, drive |-> drive, out |-> out])
          /\ IF CatalogRetries(out, load_attempt)
                 THEN /\ load_attempt' = load_attempt + 1
                      /\ UNCHANGED << pc, outcome, is_setup, tools, anthropic_client, messages >>
             ELSE IF out.exc # None
                 THEN /\ Raise(out.exc[1])
                      /\ UNCHANGED << load_attempt, is_setup, tools, anthropic_client, messages >>
             ELSE /\ tools' = out.ret
                  /\ anthropic_client' = Some("Anthropic")
                  /\ is_setup' = TRUE
                  /\ UNCHANGED load_attempt
                  /\ IF call = "setup"
                        THEN /\ pc' = "idle"
                             /\ outcome' = ReturnedValue(None)
                             /\ UNCHANGED messages
                        ELSE /\ pc' = "await_model"
                             /\ messages' = InitialMessages
                             /\ UNCHANGED outcome
    /\ UNCHANGED << call, composio, max_turns, turn, stop_reason, content, idx, tool_results,
                    model_calls, tool_calls, inv >>

LoadTools == LoadToolsFrom(CatalogFetches(MeetCatalogs), CatalogFetches(DriveCatalogs))

(***************************************************************************)
(* The reasoning model: what messages.create answers.                      *)
(***************************************************************************)
\* the operations the model asks for: they need not be in the catalog
RequestedTools ==
    { "GOOGLEMEET_LIST_CONFERENCE_RECORDS", "GOOGLEDRIVE_DOWNLOAD_FILE",
      "GOOGLEMEET_CREATE_MEET" }

Texts == {"Hello", "world"}

BlockKinds ==
    {[type |-> "text", text |-> t] : t \in Texts}
      \cup {[type |-> "tool_use", name |-> n] : n \in RequestedTools}

ToolUseId(i) == CASE i = 1 -> "toolu_1" [] i = 2 -> "toolu_2" [] i = 3 -> "toolu_3" [] OTHER -> "toolu_n"

\* the block at position i of a response: a tool request carries its id
Block(kind, i) ==
    IF kind.type = "tool_use"
        THEN [type |-> "tool_use", id |-> ToolUseId(i), name |-> kind.name]
    ELSE kind

Contents ==
    UNION { { [i \in 1..n |-> Block(f[i], i)] : f \in [1..n -> BlockKinds] }
            : n \in 0..MaxBlocks }

ToolUses(c) == {i \in 1..Len(c) : c[i].type = "tool_use"}

StopReasons == {"tool_use", "end_turn", "max_tokens"}

\* the answers with at most `budget` tool requests, and the failures of the call
ModelReplies(budget) ==
    { [kind |-> "message", stop_reason |-> r, content |-> c] :
          r \in StopReasons, c \in {x \in Contents : Cardinality(ToolUses(x)) <= budget} }
      \cup { [kind |-> "raise", type |-> "APIError", message |-> "overloaded"],
             [kind |-> "raise", type |-> "Exception", message |-> "connection lost"] }

(***************************************************************************)
(* agent.py: _run_agent_loop and the try statement of query around it.     *)
(***************************************************************************)
\* hasattr(block, "text")
TextsOf(c) == SelectSeq(c, LAMBDA b : b.type = "text")

\* mutant: the texts are joined with spaces
RECURSIVE JoinWithSpace(_)
JoinWithSpace(blocks) ==
    IF blocks = <<>> THEN ""
    ELSE IF Len(blocks) = 1 THEN blocks[1].text
    ELSE blocks[1].text \o " " \o JoinWithSpace(Tail(blocks))

RECURSIVE Join(_)
Join(blocks) ==
    IF blocks = <<>> THEN ""
    ELSE IF Len(blocks) = 1 THEN blocks[1].text
    ELSE blocks[1].text \o "\n" \o Join(Tail(blocks))

\* mutant: the loop goes to the last tool request at once
LastToolUse(c, i) ==
    IF \E j \in ToolUses(c) : j > i
        THEN CHOOSE j \in ToolUses(c) : \A k \in ToolUses(c) : k <= j
    ELSE 0

\* the position of the next tool request after position i, 0 if there is none
NextToolUse(c, i) ==
    IF \E j \in ToolUses(c) : j > i THEN Min({j \in ToolUses(c) : j > i}) ELSE 0

\* messages.append of the response of the assistant
WithAssistant(msgs, c) == Append(msgs, [role |-> "assistant", content |-> c])

\* mutant: the tool results take the place of the last message
ReplacingLast(msgs, results) ==
    [msgs EXCEPT ![Len(msgs)] = [role |-> "user", content |-> results]]

\* messages.append of the tool results of a turn
WithToolResults(msgs, results) == Append(msgs, [role |-> "user", content |-> results])

\* mutant: a result of the loop is reported as a failure
QueryIncomplete(result) ==
    /\ pc' = "idle"
    /\ outcome' = ReturnedValue(AgentResponse(FALSE, None, Some(result)))

\* query returns the result of _run_agent_loop
QuerySucceeds(result) ==
    /\ pc' = "idle"
    /\ outcome' = ReturnedValue(AgentResponse(TRUE, Some(result), None))

\* mutant: a failed response keeps a data value
QueryFailsWithData(type, message) ==
    /\ pc' = "idle"
    /\ outcome' = ReturnedValue(AgentResponse(FALSE, Some(""), Some(message)))

\* the except clauses of query
QueryFails(type, message) ==
    /\ pc' = "idle"
    /\ outcome' = ReturnedValue(AgentResponse(FALSE, None, Some(
           IF IsInstance(type, "GoogleMeetAgentError") THEN message
           ELSE IF IsInstance(type, "APIError") THEN "Claude API error: " \o message
           ELSE "Unexpected error: " \o message)))

\* mutant: the loop runs one iteration too many
EndOfTurnOffByOne ==
    /\ turn' = turn + 1
    /\ IF turn + 1 <= max_turns
          THEN /\ pc' = "await_model"
               /\ UNCHANGED outcome
          ELSE QuerySucceeds(SENTINEL)

\* the end of an iteration of the for loop: the next iteration, or the sentinel
EndOfTurn ==
    /\ turn' = turn + 1
    /\ IF turn + 1 < max_turns
          THEN /\ pc' = "await_model"
               /\ UNCHANGED outcome
          ELSE QuerySucceeds(SENTINEL)

\* one call of the reasoning model and what the loop does with the answer,
\* up to the first tool request
ModelCall ==
    /\ pc = "await_model"
    /\ UNCHANGED << conn, frames >>
    /\ model_calls' = model_calls + 1
    /\ inv' = NoInvocation
    /\ \E reply \in ModelReplies(MaxToolCalls - tool_calls) :
          IF reply.kind = "raise"
              THEN /\ QueryFails(reply.type, reply.message)
                   /\ UNCHANGED << turn, messages, stop_reason, content, idx, tool_results,
                                   tool_calls >>
          ELSE IF reply.stop_reason = "tool_use"
              THEN /\ stop_reason' = reply.stop_reason
                   /\ content' = reply.content
                   /\ tool_calls' = tool_calls + Cardinality(ToolUses(reply.content))
                   /\ idx' = NextToolUse(reply.content, 0)
                   /\ IF NextToolUse(reply.content, 0) # 0
                         THEN /\ messages' = WithAssistant(messages, reply.content)
                              /\ tool_results' = <<>>
                              /\ pc' = "exec_tools"
                              /\ UNCHANGED << turn, outcome >>
                         ELSE /\ messages' = WithToolResults(
                                     WithAssistant(messages, reply.content), <<>>)
                              /\ tool_results' = <<>>
                              /\ EndOfTurn
          ELSE IF reply.stop_reason = "end_turn"
              THEN /\ stop_reason' = reply.stop_reason
                   /\ content' = reply.content
                   /\ QuerySucceeds(Join(TextsOf(reply.content)))
                   /\ UNCHANGED << turn, messages, idx, tool_results, tool_calls >>
          ELSE /\ stop_reason' = reply.stop_reason
               /\ content' = reply.content
               /\ QuerySucceeds(SENTINEL)
               /\ UNCHANGED << turn, messages, idx, tool_results, tool_calls >>
    /\ UNCHANGED << call, agentVars, load_attempt, catalog_fetch, max_turns >>

(***************************************************************************)
(* agent.py: _execute_tool around one attempt of execute_google_meet_tool. *)
(***************************************************************************)
NoAnswer == [kind |-> "none"]

\* the remote execution is reached only with a connected account
ExecChoices(mode, tool_slug, listing) ==
    IF get_connected_account_for_tool(listing, tool_slug) = None THEN {NoAnswer}
    ELSE ExecOutcomesOf(mode, tool_slug)

\* the content is fetched only for a download result that holds a location
Fetches(tool_slug, exec) ==
    /\ tool_slug = "GOOGLEDRIVE_DOWNLOAD_FILE"
    /\ exec.kind = "dict"
    /\ ~ ("error" \in DOMAIN exec.result /\ exec.result["error"] # "")
    /\ HasLocation(IF "data" \in DOMAIN exec.result THEN exec.result["data"] ELSE exec.result)

NetChoices(mode, tool_slug, exec) ==
    IF Fetches(tool_slug, exec) THEN FetchOutcomesOf(mode) ELSE {NoAnswer}

\* the app of the account with the given id
AppOfAccount(listing, id) ==
    IF id = None THEN None
    ELSE Some((CHOOSE a \in {listing.accounts[i] : i \in 1..Len(listing.accounts)} :
                   a.id = id[1]).app)

\* the listing holds an account of the integration that owns the operation
HasOwnerAccount(listing, tool_slug) ==
    /\ ~ listing.raises
    /\ OwningApp(tool_slug) # None
    /\ AccountsOf(listing.accounts, OwningApp(tool_slug)[1]) # {}

\* mutant: the envelope does not tell the kind of the exception
EnvelopeWithoutKind(e) == [error |-> "Exception", message |-> e.message]

\* the except clause of _execute_tool: the JSON envelope of a failure
Envelope(e) == [error |-> e.type, message |-> e.message]

\* the kind of failure of an attempt, for the record of the invocation
FailureKind(out, exec) ==
    IF ~ out.executed THEN "no_account"
    ELSE IF exec.kind = "raise" THEN ErrorClasses[exec.message]
    ELSE "api_error"

\* the invocation after one more attempt with the given answers
Attempted(tool_slug, listing, exec, net) ==
    LET out == execute_google_meet_tool(tool_slug, listing, exec, net)
        retrying == inv.status = "retrying"
        n == (IF retrying THEN inv.attempt_number ELSE 0) + 1
    IN  [ status |-> IF Retries(out, n) THEN "retrying"
                     ELSE IF out.exc = None THEN "returned" ELSE "raised",
          tool_slug |-> tool_slug,
          attempt_number |-> n,
          executions |-> (IF retrying THEN inv.executions ELSE 0)
                           + (IF out.executed THEN 1 ELSE 0),
          waits |-> (IF retrying THEN inv.waits ELSE <<>>)
                      \o (IF Retries(out, n) THEN <<wait_exponential(n)>> ELSE <<>>),
          failures |-> (IF retrying THEN inv.failures ELSE <<>>)
                         \o (IF out.exc = None THEN <<>> ELSE <<FailureKind(out, exec)>>),
          listing_raises |-> listing.raises,
          has_owner |-> HasOwnerAccount(listing, tool_slug),
          account_app |-> AppOfAccount(listing, out.connected_account_id),
          exec |-> IF out.executed THEN Some(exec) ELSE None,
          net |-> IF Fetches(tool_slug, exec) /\ out.executed THEN Some(net) ELSE None,
          result |-> Some([ret |-> out.ret, exc |-> out.exc]) ]

\* the tool result block that answers a request
ToolResult(block, result) ==
    [ type |-> "tool_result", tool_use_id |-> block.id,
      content |-> IF result.exc = None THEN result.ret[1] ELSE Envelope(result.exc[1]) ]

\* one attempt of the tool request at idx; after the last attempt the result
\* joins tool_results and the loop goes on to the next request or turn
ExecuteTool ==
    /\ pc = "exec_tools"
    /\ UNCHANGED << conn, frames >>
    /\ \E listing \in ListingsOf(call) :
       \E exec \in ExecChoices(call, content[idx].name, listing) :
       \E net \in NetChoices(call, content[idx].name, exec) :
          LET after == Attempted(content[idx].name, listing, exec, net)
              results == Append(tool_results, ToolResult(content[idx], after.result[1]))
          IN  /\ inv' = after
              /\ IF after.status = "retrying"
                    THEN UNCHANGED << pc, outcome, turn, messages, idx, tool_results >>
                 ELSE IF NextToolUse(content, idx) # 0
                    THEN /\ idx' = NextToolUse(content, idx)
                         /\ tool_results' = results
                         /\ UNCHANGED << pc, outcome, turn, messages >>
                 ELSE /\ messages' = WithToolResults(messages, results)
                      /\ tool_results' = results
                      /\ UNCHANGED idx
                      /\ EndOfTurn
    /\ UNCHANGED << call, agentVars, load_attempt, catalog_fetch, max_turns, stop_reason,
                    content, model_calls, tool_calls >>

(***************************************************************************)
(* execute_google_meet_tool called by a caller of the package, as          *)
(* scripts/qa_test.py does: it returns its result or raises.               *)
(***************************************************************************)
ToolSlugs == RequestedTools \cup {"GMAIL_SEND_EMAIL"}

CallTool(tool_slug) ==
    /\ pc = "idle"
    /\ UNCHANGED frames
    /\ pc' = "tool"
    /\ call' = "tool"
    /\ outcome' = NoOutcome
    /\ load_attempt' = 0
    /\ catalog_fetch' = None
    /\ max_turns' = 0
    /\ turn' = 0
    /\ messages' = <<>>
    /\ stop_reason' = ""
    /\ content' = <<>>
    /\ idx' = 0
    /\ tool_results' = <<>>
    /\ model_calls' = 0
    /\ tool_calls' = 0
    /\ inv' = [NoInvocation EXCEPT !.status = "called", !.tool_slug = tool_slug]
    /\ conn' = NoConn
    /\ UNCHANGED agentVars

\* one attempt; after the last one the call returns or raises
ToolAttempt ==
    /\ pc = "tool"
    /\ UNCHANGED << conn, frames >>
    /\ \E listing \in ListingsOf(call) :
       \E exec \in ExecChoices(call, inv.tool_slug, listing) :
       \E net \in NetChoices(call, inv.tool_slug, exec) :
          LET after == Attempted(inv.tool_slug, listing, exec, net) IN
          /\ inv' = after
          /\ IF after.status = "retrying" THEN UNCHANGED << pc, outcome >>
             ELSE /\ pc' = "idle"
                  /\ outcome' = IF after.status = "returned"
                                    THEN ReturnedValue(after.result[1].ret[1])
                                 ELSE RaisedException(after.result[1].exc[1])
    /\ UNCHANGED << call, agentVars, load_attempt, catalog_fetch, loopVars >>

Next ==
    \/ Setup
    \/ \E tool_slug \in ToolSlugs : CallTool(tool_slug)
    \/ ToolAttempt
    \/ \E arg \in MaxTurnsArgs : Query(arg)
    \/ EnsureConnection
    \/ WaitForConnection
    \/ LoadTools
    \/ ModelCall
    \/ ExecuteTool

Spec == Init /\ [][Next]_vars

(***************************************************************************)
(* The queries of a set-up agent, one after the other.  Every remote call  *)
(* returns or raises and the code is synchronous: a query in progress      *)
(* takes its next step.                                                    *)
(***************************************************************************)
\* the agent after a setup that has returned
SetUpInit ==
    /\ pc = "idle"
    /\ call = "setup"
    /\ outcome = ReturnedValue(None)
    /\ is_setup = TRUE
    /\ composio = NewClient(None)
    /\ \E meet \in CatalogFetches(MeetCatalogs), drive \in CatalogFetches(DriveCatalogs) :
          /\ ~ meet.raises
          /\ ~ drive.raises
          /\ tools = get_google_meet_tools(meet, drive).ret
          /\ catalog_fetch = Some([meet |-> meet, drive |-> drive,
                                   out |-> get_google_meet_tools(meet, drive)])
    /\ anthropic_client = Some("Anthropic")
    /\ load_attempt = 1
    /\ max_turns = 0
    /\ turn = 0
    /\ messages = <<>>
    /\ stop_reason = ""
    /\ content = <<>>
    /\ idx = 0
    /\ tool_results = <<>>
    /\ model_calls = 0
    /\ tool_calls = 0
    /\ inv = NoInvocation
    /\ conn = NoConn
    /\ frames = <<>>

QueryNext ==
    \/ \E arg \in MaxTurnsArgs : Query(arg)
    \/ ModelCall
    \/ ExecuteTool

Progress == WF_vars(ModelCall) /\ WF_vars(ExecuteTool)

QueryRuns == SetUpInit /\ [][QueryNext]_vars /\ Progress

(***************************************************************************)
(* tools.py: get_google_meet_tools on every catalog the platform may       *)
(* answer with: items in any order, items that occur more than once, items *)
(* without a name.  The agent stands in setup, after the connection check. *)
(***************************************************************************)
\* an item that carries no name
Nameless == [description |-> "d"]

MeetItems ==
    { Item("GOOGLEMEET_LIST_CONFERENCE_RECORDS"), Item("GOOGLEMEET_CREATE_MEET"), Nameless }

DriveItems ==
    { Item("GOOGLEDRIVE_DOWNLOAD_FILE"), Item("GOOGLEDRIVE_LIST_FILES"),
      Item("GOOGLEDRIVE_DELETE_FILE"), Nameless }

\* the sequences of at most MaxItems items
CatalogsOver(items) == UNION { [1..n -> items] : n \in 0..MaxItems }

\* setup has created the client and the connection check has returned
LoadingInit ==
    /\ pc = "load_tools"
    /\ call = "setup"
    /\ outcome = NoOutcome
    /\ is_setup = FALSE
    /\ composio = NewClient(None)
    /\ tools = None
    /\ anthropic_client = None
    /\ load_attempt = 1
    /\ catalog_fetch = None
    /\ max_turns = 0
    /\ turn = 0
    /\ messages = <<>>
    /\ stop_reason = ""
    /\ content = <<>>
    /\ idx = 0
    /\ tool_results = <<>>
    /\ model_calls = 0
    /\ tool_calls = 0
    /\ inv = NoInvocation
    /\ conn = ExistingConn
    /\ frames = <<>>

LoadingNext ==
    LoadToolsFrom(CatalogFetches(CatalogsOver(MeetItems)),
                  CatalogFetches(CatalogsOver(DriveItems)))

Loading == LoadingInit /\ [][LoadingNext]_vars

(***************************************************************************)
(* agent.py: queries on one set-up agent that run interleaved.  The locals *)
(* of _run_agent_loop (messages, turn, response, tool_results) live in the *)
(* frame of the call; the agent's handles are only read.                   *)
(***************************************************************************)
Queries == {1, 2}

\* mutant: the locals of the loop are kept in one place for all calls
SharedFrame(q) == 1

\* the frame of a call of query: its own
Frame(q) == q

UserMessageOf(q) == IF q = 1 THEN UserMessage ELSE "Who attended the last meeting?"

TextOf(q) == IF q = 1 THEN "answer 1" ELSE "answer 2"

FrameToolUseId(q, i) ==
    IF q = 1 THEN ToolUseId(i)
    ELSE CASE i = 1 -> "toolu_b1" [] i = 2 -> "toolu_b2" [] i = 3 -> "toolu_b3"
           [] OTHER -> "toolu_bn"

\* the blocks the model answers a query with
FrameBlock(q, type, i) ==
    IF type = "tool_use"
        THEN [type |-> "tool_use", id |-> FrameToolUseId(q, i),
              name |-> "GOOGLEMEET_LIST_CONFERENCE_RECORDS"]
    ELSE [type |-> "text", text |-> TextOf(q)]

FrameContents(q) ==
    UNION { { [i \in 1..n |-> FrameBlock(q, f[i], i)] : f \in [1..n -> {"text", "tool_use"}] }
            : n \in 0..MaxBlocks }

FrameReplies(q) ==
    { [kind |-> "message", stop_reason |-> r, content |-> c] :
          r \in StopReasons, c \in FrameContents(q) }
      \cup { [kind |-> "raise", type |-> "APIError", message |-> "overloaded"] }

\* what _execute_tool yields: the result, or the exception it catches
FrameToolOutcomes ==
    { [ret |-> Some([success |-> TRUE, data |-> [items |-> "records"]]), exc |-> None],
      [ret |-> None, exc |-> Some(RateLimitError)] }

\* a frame before the call of query
NotCalled ==
    [ pc |-> "start", max_turns |-> 0, turn |-> 0, messages |-> <<>>, stop_reason |-> "",
      content |-> <<>>, idx |-> 0, tool_results |-> <<>>, model_calls |-> 0,
      outcome |-> NoOutcome ]

\* a set-up agent with no call in progress, and the queries not yet called
InterleavedInit ==
    /\ pc = "idle"
    /\ call = "setup"
    /\ outcome = ReturnedValue(None)
    /\ is_setup = TRUE
    /\ composio = NewClient(None)
    /\ \E meet \in CatalogFetches(MeetCatalogs), drive \in CatalogFetches(DriveCatalogs) :
          /\ ~ meet.raises
          /\ ~ drive.raises
          /\ tools = get_google_meet_tools(meet, drive).ret
    /\ anthropic_client = Some("Anthropic")
    /\ load_attempt = 1
    /\ catalog_fetch = None
    /\ max_turns = 0
    /\ turn = 0
    /\ messages = <<>>
    /\ stop_reason = ""
    /\ content = <<>>
    /\ idx = 0
    /\ tool_results = <<>>
    /\ model_calls = 0
    /\ tool_calls = 0
    /\ inv = NoInvocation
    /\ conn = NoConn
    /\ frames = [q \in Queries |-> NotCalled]

\* the end of an iteration in a frame: the next iteration, or the sentinel
FrameEndOfTurn(f) ==
    IF f.turn + 1 < f.max_turns
        THEN [f EXCEPT !.turn = f.turn + 1, !.pc = "await_model"]
    ELSE [f EXCEPT !.turn = f.turn + 1, !.pc = "idle",
                   !.outcome = ReturnedValue(AgentResponse(TRUE, Some(SENTINEL), None))]

\* query(user_message, max_turns) on the set-up agent, up to the first model call
StartQuery(q, arg) ==
    /\ frames[q].pc = "start"
    /\ frames' = [frames EXCEPT ![Frame(q)] =
                     [NotCalled EXCEPT !.pc = "await_model",
                                       !.max_turns = EffectiveMaxTurns(arg),
                                       !.messages = << [role |-> "user",
                                                        content |-> UserMessageOf(q)] >>]]
    /\ UNCHANGED instanceVars

\* one call of the reasoning model by query q and what its loop does with the
\* answer, up to the first tool request
FrameModelCall(q) ==
    /\ frames[q].pc # "start"
    /\ frames[Frame(q)].pc = "await_model"
    /\ \E reply \in FrameReplies(q) :
          LET f == [frames[Frame(q)] EXCEPT !.model_calls = @ + 1] IN
          frames' = [frames EXCEPT ![Frame(q)] =
              IF reply.kind = "raise"
                  THEN [f EXCEPT !.pc = "idle",
                                 !.outcome = ReturnedValue(AgentResponse(FALSE, None,
                                     Some("Claude API error: " \o reply.message)))]
              ELSE IF reply.stop_reason = "tool_use"
                  THEN IF NextToolUse(reply.content, 0) # 0
                          THEN [f EXCEPT !.stop_reason = reply.stop_reason,
                                         !.content = reply.content,
                                         !.idx = NextToolUse(reply.content, 0),
                                         !.tool_results = <<>>,
                                         !.messages = WithAssistant(@, reply.content),
                                         !.pc = "exec_tools"]
                       ELSE FrameEndOfTurn(
                                [f EXCEPT !.stop_reason = reply.stop_reason,
                                          !.content = reply.content,
                                          !.idx = 0,
                                          !.tool_results = <<>>,
                                          !.messages = WithToolResults(
                                              WithAssistant(@, reply.content), <<>>)])
              ELSE IF reply.stop_reason = "end_turn"
                  THEN [f EXCEPT !.stop_reason = reply.stop_reason,
                                 !.content = reply.content,
                                 !.pc = "idle",
                                 !.outcome = ReturnedValue(AgentResponse(TRUE,
                                     Some(Join(TextsOf(reply.content))), None))]
              ELSE [f EXCEPT !.stop_reason = reply.stop_reason,
                             !.content = reply.content,
                             !.pc = "idle",
                             !.outcome = ReturnedValue(AgentResponse(TRUE, Some(SENTINEL), None))]]
    /\ UNCHANGED instanceVars

\* the tool request at idx of query q is executed; its result joins
\* tool_results and the loop goes on to the next request or ends the turn
FrameExecuteTool(q) ==
    /\ frames[q].pc # "start"
    /\ frames[Frame(q)].pc = "exec_tools"
    /\ \E result \in FrameToolOutcomes :
          LET f == frames[Frame(q)]
              results == Append(f.tool_results, ToolResult(f.content[f.idx], result))
          IN  frames' = [frames EXCEPT ![Frame(q)] =
                  IF NextToolUse(f.content, f.idx) # 0
                      THEN [f EXCEPT !.idx = NextToolUse(f.content, f.idx),
                                     !.tool_results = results]
                  ELSE FrameEndOfTurn(
                           [f EXCEPT !.tool_results = results,
                                     !.messages = WithToolResults(@, results)])]
    /\ UNCHANGED instanceVars

InterleavedNext ==
    \/ \E q \in Queries, arg \in MaxTurnsArgs : StartQuery(q, arg)
    \/ \E q \in Queries : FrameModelCall(q)
    \/ \E q \in Queries : FrameExecuteTool(q)

Interleaved == InterleavedInit /\ [][InterleavedNext]_vars

(***************************************************************************)
(* The claims.  Descriptions used by several of them come first.           *)
(***************************************************************************)
\* a query has ended and returned this response
QueryReturned(response) ==
    /\ call = "query"
    /\ pc = "idle"
    /\ outcome = ReturnedValue(response)

SentinelResponse == AgentResponse(TRUE, Some(SENTINEL), None)

\* an invocation of the tool invoker has made an attempt
Invoked == inv.status \in {"retrying", "returned", "raised"}

\* the exception of the last attempt, if it failed
FailedWith == inv.result[1].exc

NonDecreasing(seq) == \A i \in 1..(Len(seq) - 1) : seq[i] <= seq[i + 1]

ReadOnlyTools == EXPECTED_MEET_TOOLS \cup GOOGLEDRIVE_TOOLS_FOR_NOTES

\* C1: a query makes at most max_turns calls of the reasoning model, and a
\* query whose every model call answered "tool_use" ends after max_turns
\* calls with the sentinel as its result.
C1_TurnBudget ==
    call = "query" =>
        /\ model_calls <= max_turns
        /\ (pc = "idle" /\ outcome.kind = "returned" /\ turn = model_calls) =>
              /\ model_calls = max_turns
              /\ outcome.value = SentinelResponse

\* C1 witness: max_turns = 1, the model asked for a tool, the sentinel came back
C1_Witness ==
    /\ QueryReturned(SentinelResponse)
    /\ max_turns = 1
    /\ model_calls = 1
    /\ turn = 1
    /\ Len(messages) = 3

\* C2: query never raises to its caller; every failure becomes a response
\* with success = false and the message as error.
C2_QueryNeverRaises ==
    (call = "query" /\ pc = "idle") =>
        /\ outcome.kind = "returned"
        /\ outcome.value.success = FALSE => outcome.value.error # None

\* C3: an invocation that ends with an unclassified (connection-class) error
\* after failing that way on every attempt has made exactly 3 attempts, with
\* non-decreasing waits between them.
C3_GenericRetriedThrice ==
    ( /\ inv.status = "raised"
      /\ inv.failures # <<>>
      /\ \A i \in 1..Len(inv.failures) : inv.failures[i] = "generic" ) =>
        /\ inv.attempt_number = 3
        /\ inv.executions = 3
        /\ Len(inv.waits) = 2
        /\ NonDecreasing(inv.waits)

\* C4: an attempt that finds no active account of the integration that owns
\* the operation raises GoogleMeetAPIError with status 401, executes nothing
\* remotely and is not retried.
C4_NoOwnerAccountIs401 ==
    (Invoked /\ OwningApp(inv.tool_slug) # None /\ ~ inv.has_owner) =>
        /\ inv.status = "raised"
        /\ inv.exec = None
        /\ FailedWith # None
        /\ FailedWith[1].type = "GoogleMeetAPIError"
        /\ FailedWith[1].status_code = 401

\* C5: the account chosen for a Drive or Meet operation is an account of the
\* integration that owns the operation.
C5_AccountOfOwningApp ==
    (Invoked /\ OwningApp(inv.tool_slug) # None /\ inv.account_app # None) =>
        inv.account_app = OwningApp(inv.tool_slug)

\* C6: every descriptor of the loaded catalog names an operation of one of the
\* two allow-lists.
C6_CatalogWithinAllowLists ==
    tools # None => \A i \in 1..Len(tools[1]) : tools[1][i].name \in ReadOnlyTools

\* C7: no query executes remotely an operation outside the read-only
\* allow-lists.
C7_QueryIsReadOnly ==
    (call = "query" /\ Invoked /\ inv.executions > 0) => inv.tool_slug \in ReadOnlyTools

\* the payload of the raw result of the last remote execution
RawData ==
    IF "data" \in DOMAIN inv.exec[1].result THEN inv.exec[1].result["data"]
    ELSE inv.exec[1].result

\* a download has returned for a raw result that held the temporary location
DownloadReturned ==
    /\ inv.status = "returned"
    /\ inv.tool_slug = "GOOGLEDRIVE_DOWNLOAD_FILE"
    /\ inv.exec[1].kind = "dict"
    /\ HasLocation(RawData)

\* the payload of the returned value
Payload == inv.result[1].ret[1].data

HoldsLocation(data) ==
    /\ "downloaded_file_content" \in DOMAIN data
    /\ "s3url" \in DOMAIN data["downloaded_file_content"]

\* the text of a body: UTF-8, and Latin-1 for bytes that are not UTF-8
ExpectedText(body) ==
    CASE body = <<72, 105>> -> "Hi"
      [] body = <<195, 169>> -> "<U+00E9>"
      [] body = <<233>> -> "<U+00E9>"
      [] OTHER -> "?"

\* C8: a download whose raw result holds the temporary location returns a
\* payload without the location and with the decoded text of the fetched
\* content under file_content.
C8_DownloadHoldsDecodedText ==
    DownloadReturned =>
        /\ ~ HoldsLocation(Payload)
        /\ "file_content" \in DOMAIN Payload
        /\ inv.net[1].kind = "ok"
        /\ Payload["file_content"] = ExpectedText(inv.net[1].body)

\* the message of the failure of the last attempt: of the exception of the
\* remote execution, or of the error field of its result
FailureMessage ==
    IF inv.exec = None THEN ""
    ELSE IF inv.exec[1].kind = "raise" THEN inv.exec[1].message
    ELSE IF inv.exec[1].kind = "dict" /\ "error" \in DOMAIN inv.exec[1].result
        THEN inv.exec[1].result["error"]
    ELSE ""

\* the failure messages that hold a rate-limit indicator
RateLimitFailures ==
    {m \in RemoteMessages \cup ResultErrors :
        Contains(Lower(m), "429") \/ Contains(Lower(m), "rate limit")}

\* the failure messages that hold a permission or not-found indicator and no
\* rate-limit indicator
PermissionNotFoundFailures ==
    {m \in (RemoteMessages \cup ResultErrors) \ RateLimitFailures :
        \E w \in {"403", "permission", "404", "not found"} : Contains(Lower(m), w)}

\* C9: a failure whose message holds a rate-limit indicator is raised as
\* RateLimitError and retried while fewer than 3 attempts were made; no
\* invocation executes remotely more than 3 times; a success of a later
\* attempt is what the invoker returns; after the third rate-limited attempt
\* the RateLimitError reaches the caller.
C9_RateLimitRetried ==
    Invoked =>
        /\ inv.executions <= 3
        /\ inv.attempt_number <= 3
        /\ FailureMessage \in RateLimitFailures =>
              /\ FailedWith = Some(RateLimitError)
              /\ inv.status = IF inv.attempt_number < 3 THEN "retrying" ELSE "raised"
              /\ (inv.status = "raised" /\ call = "tool") =>
                    (pc = "idle" /\ outcome = RaisedException(RateLimitError))
        /\ (inv.status = "returned" /\ call = "tool") =>
              (pc = "idle" /\ outcome = ReturnedValue(inv.result[1].ret[1]))

\* C10: an attempt that fails with a permission-class or a not-found-class
\* error ends the invocation: the error is raised at once and no further
\* attempt follows; when it is the first failure it is the only attempt, with
\* one remote execution and no wait.  An error the remote execution raises
\* carries the status 403 or 404.
C10_PermissionNotFoundOnce ==
    (Invoked /\ FailureMessage \in PermissionNotFoundFailures) =>
        /\ inv.status = "raised"
        /\ FailedWith # None
        /\ FailedWith[1].type = "GoogleMeetAPIError"
        /\ inv.exec[1].kind = "raise" =>
              /\ inv.failures[Len(inv.failures)] \in {"permission", "not_found"}
              /\ FailedWith[1].status_code =
                    IF inv.failures[Len(inv.failures)] = "permission" THEN 403 ELSE 404
        /\ Len(inv.failures) = 1 =>
              (inv.attempt_number = 1 /\ inv.executions = 1 /\ inv.waits = <<>>)
        /\ call = "tool" => (pc = "idle" /\ outcome = RaisedException(FailedWith[1]))

\* C10 witness: a not-found error of the first attempt reached the caller
C10_Witness ==
    /\ call = "tool"
    /\ pc = "idle"
    /\ inv.status = "raised"
    /\ inv.failures = <<"not_found">>
    /\ inv.executions = 1
    /\ outcome.kind = "raised"
    /\ outcome.exc.status_code = 404

\* the rules of the classification, in their order
Rules == << {"429", "rate limit"}, {"403", "permission"}, {"404", "not found"} >>

\* the rules whose indicators the lower-cased message holds
Matching(m) == {r \in 1..Len(Rules) : \E w \in Rules[r] : Contains(Lower(m), w)}

\* the earliest rule that matches a failure message; 4 (generic) if none does
FirstRule ==
    [m \in (RemoteMessages \cup ResultErrors) \ {""} |->
        IF Matching(m) = {} THEN 4 ELSE Min(Matching(m))]

\* the rule an exception of the invoker stands for
ClassifiedAs(e) ==
    IF e.type = "RateLimitError" /\ e.status_code = 429 THEN 1
    ELSE IF e.type = "GoogleMeetAPIError" /\ e.status_code = 403 THEN 2
    ELSE IF e.type = "GoogleMeetAPIError" /\ e.status_code = 404 THEN 3
    ELSE IF e.type = "GoogleMeetAPIError" /\ e.status_code = NoStatus THEN 4
    ELSE 0

\* C11: a remote failure is raised as the class of the earliest rule, in the
\* order rate-limit, permission, not-found, generic, that matches its
\* lower-cased message.
C11_FirstMatchingRule ==
    (Invoked /\ FailureMessage # "") =>
        /\ FailedWith # None
        /\ ClassifiedAs(FailedWith[1]) = FirstRule[FailureMessage]

\* C12: a tool invocation that fails within a query does not end the query:
\* its tool result is the envelope with the kind and the message of the
\* exception, the loop goes on to the next tool request of the turn if one
\* remains, else to the next model call if the turn budget allows one, else
\* it returns the sentinel.
C12_ToolFailureDoesNotAbort ==
    (call = "query" /\ inv.status = "raised") =>
        /\ tool_results # <<>>
        /\ tool_results[Len(tool_results)].content =
              [error |-> FailedWith[1].type, message |-> FailedWith[1].message]
        /\ pc = IF Len(tool_results) < Cardinality(ToolUses(content)) THEN "exec_tools"
                ELSE IF turn < max_turns THEN "await_model"
                ELSE "idle"
        /\ pc = "exec_tools" => (idx \in ToolUses(content) /\ outcome = NoOutcome)
        /\ pc = "await_model" => outcome = NoOutcome
        /\ pc = "idle" => outcome = ReturnedValue(SentinelResponse)

\* C12 witness: the first request of a turn failed, the second was executed
\* and the next model call is due
C12_Witness ==
    /\ call = "query"
    /\ pc = "await_model"
    /\ Len(tool_results) = 2
    /\ "error" \in DOMAIN tool_results[1].content
    /\ "success" \in DOMAIN tool_results[2].content
    /\ messages[Len(messages)].content = tool_results

\* C13: a response that query returns has exactly one of data and error:
\* with success = true the data is set and the error is None, with
\* success = false the data is None and the error is set.
C13_ExactlyOneOfDataAndError ==
    (call = "query" /\ pc = "idle" /\ outcome.kind = "returned") =>
        /\ outcome.value.success \in BOOLEAN
        /\ outcome.value.success =>
              (Len(outcome.value.data) = 1 /\ outcome.value.error = None)
        /\ ~ outcome.value.success =>
              (outcome.value.data = None /\ Len(outcome.value.error) = 1)

\* C13 witness: the call of the reasoning model failed
C13_Witness ==
    /\ call = "query"
    /\ pc = "idle"
    /\ outcome = ReturnedValue([success |-> FALSE, data |-> None,
                                error |-> Some("Claude API error: overloaded")])

\* C14: a run of the catalog loading fails exactly when the fetch of the
\* Meet operations raises, and then with ComposioConnectionError; when only
\* the fetch of the Drive operations raises it returns the descriptors of the
\* Meet catalog and nothing else.
C14_DriveFetchIsOptional ==
    catalog_fetch # None =>
        LET meet == catalog_fetch[1].meet
            drive == catalog_fetch[1].drive
            out == catalog_fetch[1].out
        IN  /\ meet.raises <=> out.exc # None
            /\ out.exc # None =>
                  (out.ret = None /\ out.exc[1].type = "ComposioConnectionError")
            /\ (~ meet.raises /\ drive.raises) =>
                  /\ Len(out.ret[1]) = Len(meet.items)
                  /\ \A i \in 1..Len(meet.items) :
                        out.ret[1][i].name = meet.items[i].name
            /\ (out.exc = None /\ pc # "load_tools") => tools = out.ret

\* C14 witness: the Drive fetch raised and the agent was set up with the Meet
\* descriptors alone
C14_Witness ==
    /\ catalog_fetch # None
    /\ catalog_fetch[1].drive.raises
    /\ ~ catalog_fetch[1].meet.raises
    /\ is_setup
    /\ tools # None
    /\ Len(tools[1]) = 2
    /\ \A i \in 1..Len(tools[1]) : StartsWith(tools[1][i].name, "GOOGLEMEET_")

\* a step within a query leaves the transcript alone or appends to it
TranscriptStep ==
    (call = "query" /\ call' = "query" /\ pc \in {"await_model", "exec_tools"}) =>
        \/ messages' = messages
        \/ /\ Len(messages') \in {Len(messages) + 1, Len(messages) + 2}
           /\ SubSeq(messages', 1, Len(messages)) = messages

\* the transcript of a query: the message of the user, then for every
\* iteration one message of the assistant followed by one of the user
TranscriptShape ==
    (call = "query" /\ messages # <<>>) =>
        /\ messages[1] = [role |-> "user", content |-> UserMessage]
        /\ Len(messages) = 1 + 2 * turn + (IF pc = "exec_tools" THEN 1 ELSE 0)
        /\ \A i \in 2..Len(messages) :
              messages[i].role = IF i % 2 = 0 THEN "assistant" ELSE "user"

\* C15: within a query the transcript is append-only, and every iteration of
\* the loop that executes tools adds one message of the assistant followed by
\* one message of the user; no message of the transcript is changed or
\* removed.
C15_TranscriptAppendOnly == [][TranscriptStep]_vars /\ []TranscriptShape

\* C15 witness: two iterations have added two messages each
C15_Witness ==
    /\ call = "query"
    /\ turn = 2
    /\ Len(messages) = 5
    /\ messages[4].role = "assistant"
    /\ messages[5].role = "user"
    /\ messages[5].content # <<>>

\* the tool requests of a response, in the order of the response
ToolUseSeq(c) == SelectSeq(c, LAMBDA b : b.type = "tool_use")

\* the results answer the requests one for one, in order, tagged with their ids
Answers(req, res) ==
    /\ Len(res) = Len(req)
    /\ \A k \in 1..Len(req) :
          /\ res[k].type = "tool_result"
          /\ res[k].tool_use_id = req[k].id

\* C16: the tool requests of a response are executed one at a time in the
\* order of the response: the request in execution is the first one not yet
\* answered; the user message appended after a message of the assistant holds
\* one tool result for every tool request of it, in the same order, each with
\* the id of its request.
C16_ToolResultsInOrder ==
    call = "query" =>
        /\ \A i \in 2..Len(messages) :
              (i % 2 = 0 /\ i + 1 <= Len(messages)) =>
                  Answers(ToolUseSeq(messages[i].content), messages[i + 1].content)
        /\ pc = "exec_tools" =>
              LET done == ToolUseSeq(SubSeq(content, 1, idx - 1)) IN
              /\ content = messages[Len(messages)].content
              /\ idx \in ToolUses(content)
              /\ Answers(done, tool_results)
              /\ inv.status = "none" => tool_results = <<>>
              /\ inv.status = "retrying" => inv.tool_slug = content[idx].name
              /\ inv.status \in {"returned", "raised"} =>
                    inv.tool_slug = done[Len(done)].name

\* C16 witness: a turn with two tool requests has ended with their two results
C16_Witness ==
    /\ call = "query"
    /\ Len(messages) >= 3
    /\ Len(ToolUseSeq(messages[2].content)) = 2
    /\ Len(messages[3].content) = 2
    /\ messages[3].content[1].tool_use_id = messages[2].content[1].id
    /\ messages[3].content[2].tool_use_id = messages[2].content[2].id
    /\ messages[2].content[1].name # messages[2].content[2].name

\* the texts of the first n blocks of a response, one per line
RECURSIVE JoinedUpTo(_, _)
JoinedUpTo(c, n) ==
    IF n = 0 THEN ""
    ELSE IF c[n].type # "text" THEN JoinedUpTo(c, n - 1)
    ELSE IF \E j \in 1..(n - 1) : c[j].type = "text"
        THEN JoinedUpTo(c, n - 1) \o "\n" \o c[n].text
    ELSE c[n].text

\* the query has ended with the response of its last model call: no tool was
\* executed and nothing was appended to the transcript after it
EndedWithResponse ==
    /\ inv = NoInvocation
    /\ model_calls = turn + 1
    /\ Len(messages) = 1 + 2 * turn

\* C17: when the model stops with "end_turn" the query returns the texts of
\* that response joined with newlines in the order of the response (the empty
\* string if there is none), with no further model call and no tool executed.
C17_EndTurnReturnsTexts ==
    (call = "query" /\ pc = "idle" /\ outcome.kind = "returned"
        /\ stop_reason = "end_turn") =>
        /\ outcome.value =
              [success |-> TRUE, data |-> Some(JoinedUpTo(content, Len(content))),
               error |-> None]
        /\ EndedWithResponse

\* C17 witness: a response with two texts came back as two lines
C17_Witness ==
    /\ call = "query"
    /\ pc = "idle"
    /\ stop_reason = "end_turn"
    /\ content = << [type |-> "text", text |-> "Hello"], [type |-> "text", text |-> "world"] >>
    /\ outcome.kind = "returned"
    /\ outcome.value.data = Some("Hello\nworld")

\* C18: when the model stops with a reason other than "tool_use" and
\* "end_turn" the query ends at once, with no tool executed and no further
\* model call, and returns success = true with the sentinel as data.
C18_OtherStopReasonIsIncomplete ==
    (call = "query" /\ pc = "idle" /\ outcome.kind = "returned"
        /\ stop_reason \notin {"", "tool_use", "end_turn"}) =>
        /\ outcome.value =
              [success |-> TRUE,
               data |-> Some("Max turns reached without completing the task."),
               error |-> None]
        /\ EndedWithResponse

\* C18 witness: the first response stopped with "max_tokens" and asked for a
\* tool; a turn of the budget was left
C18_Witness ==
    /\ call = "query"
    /\ pc = "idle"
    /\ stop_reason = "max_tokens"
    /\ ToolUses(content) # {}
    /\ model_calls = 1
    /\ max_turns = 2
    /\ outcome.kind = "returned"
    /\ outcome.value.success

\* the blocks of a message of frame q come from the responses to query q
OwnBlock(q, b) ==
    CASE b.type = "text" -> b.text = TextOf(q)
      [] b.type = "tool_use" -> \E i \in 1..MaxBlocks : b.id = FrameToolUseId(q, i)
      [] b.type = "tool_result" ->
            \E i \in 1..MaxBlocks : b.tool_use_id = FrameToolUseId(q, i)
      [] OTHER -> FALSE

\* C19: queries that run interleaved on one set-up agent share neither
\* transcript nor turn counter: the transcript a query hands to the model
\* starts with its own user message and holds only the responses to it and
\* the results of its own tool requests; it has two messages for each of its
\* own iterations; the query makes at most max_turns model calls of its own.
C19_QueriesShareNothing ==
    \A q \in Queries :
        LET f == frames[q] IN
        f.pc # "start" =>
            /\ f.messages # <<>>
            /\ f.messages[1] = [role |-> "user", content |-> UserMessageOf(q)]
            /\ \A i \in 2..Len(f.messages) :
                  \A k \in 1..Len(f.messages[i].content) :
                      OwnBlock(q, f.messages[i].content[k])
            /\ Len(f.messages) = 1 + 2 * f.turn + (IF f.pc = "exec_tools" THEN 1 ELSE 0)
            /\ f.model_calls <= f.max_turns
            /\ f.turn <= f.model_calls
            /\ f.pc = "await_model" => f.model_calls = f.turn

\* C19 witness: both queries are within a tool-execution turn, the first in
\* its second iteration, the second in its first
C19_Witness ==
    /\ frames # <<>>
    /\ frames[1].pc = "exec_tools"
    /\ frames[2].pc = "exec_tools"
    /\ frames[1].turn = 1
    /\ frames[2].turn = 0
    /\ frames[1].max_turns = 2
    /\ frames[2].max_turns = 1
    /\ Len(frames[1].messages) = 4
    /\ Len(frames[2].messages) = 2

\* a handle that exists stays as it is
HandlesKept ==
    /\ composio # None => composio' = composio
    /\ tools # None => tools' = tools
    /\ anthropic_client # None => anthropic_client' = anthropic_client

\* C20: the remote-integration client, the model client and the catalog are
\* created at most once over the setup and query calls on an agent, setups
\* that fail and are repeated included: no step changes a handle that exists.
C20_HandlesCreatedOnce == [][HandlesKept]_vars

\* C20 amended: the catalog and the model client are created at most once,
\* and once the agent is set up no call changes a handle or the set-up flag;
\* a query on a set-up agent changes none of them.  (The remote-integration
\* client is created anew by every setup that follows a failed one.)
C20_HandlesFixedOnceSetUp ==
    [][ /\ tools # None => tools' = tools
        /\ anthropic_client # None => anthropic_client' = anthropic_client
        /\ is_setup => UNCHANGED agentVars
        /\ (tools # None \/ anthropic_client # None) => is_setup ]_vars

\* C20 witness: a query has ended on an agent whose setup failed once and was
\* repeated: the client in use is the second one
C20_Witness ==
    /\ is_setup
    /\ composio = Some(2)
    /\ tools # None
    /\ anthropic_client # None
    /\ call = "query"
    /\ pc = "idle"
    /\ outcome.kind = "returned"
    /\ model_calls >= 1

\* the name a descriptor carries for an item of a catalog
NameOf(item) == IF "name" \in DOMAIN item THEN item.name ELSE "unknown"

\* the items of the file catalog that pass the allow-list, in catalog order
AllowedItems(items) ==
    SelectSeq(items, LAMBDA t : "name" \in DOMAIN t /\ t.name \in GOOGLEDRIVE_TOOLS_FOR_NOTES)

\* the items a run of the loader has turned into descriptors, in order
LoadedItems(f) ==
    f.meet.items \o (IF f.drive.raises THEN <<>> ELSE AllowedItems(f.drive.items))

\* C21: a catalog load that returns holds one descriptor per item of the
\* meeting-query catalog in its order, then one per allowed item of the file
\* catalog in its order; an item that occurs twice yields two descriptors.
C21_CatalogOrderKept ==
    (catalog_fetch # None /\ catalog_fetch[1].out.exc = None) =>
        LET f == catalog_fetch[1]
            ret == f.out.ret[1]
        IN  /\ tools = Some(ret)
            /\ Len(ret) = Len(LoadedItems(f))
            /\ \A i \in 1..Len(ret) :
                  /\ ret[i].name = NameOf(LoadedItems(f)[i])
                  /\ ret[i].description = LoadedItems(f)[i].description

\* C21 witness: the meeting-query catalog holds the same operation twice and
\* the file catalog one allowed operation twice after a filtered one
C21_Witness ==
    /\ catalog_fetch # None
    /\ catalog_fetch[1].out.exc = None
    /\ pc = "idle"
    /\ catalog_fetch[1].meet.items =
           << Item("GOOGLEMEET_CREATE_MEET"), Item("GOOGLEMEET_LIST_CONFERENCE_RECORDS"),
              Item("GOOGLEMEET_CREATE_MEET") >>
    /\ catalog_fetch[1].drive.items =
           << Item("GOOGLEDRIVE_DELETE_FILE"), Item("GOOGLEDRIVE_LIST_FILES"),
              Item("GOOGLEDRIVE_LIST_FILES") >>
    /\ Len(tools[1]) = 5

\* the last run of the catalog loader failed
LoadFailed == catalog_fetch # None /\ catalog_fetch[1].out.exc # None

\* C22: the catalog load is attempted at most 3 times; a failed attempt is a
\* ComposioConnectionError and is followed by another attempt unless it was
\* the third, after which the error is raised; the catalog of the first
\* attempt that succeeds is the one the agent keeps, and no attempt follows it.
C22_CatalogLoadRetried ==
    /\ load_attempt <= stop_after_attempt
    /\ (catalog_fetch # None /\ catalog_fetch[1].out.exc = None) =>
          /\ pc # "load_tools"
          /\ tools = catalog_fetch[1].out.ret
    /\ LoadFailed =>
          /\ catalog_fetch[1].meet.raises
          /\ catalog_fetch[1].out.exc[1].type = "ComposioConnectionError"
          /\ pc \in {"load_tools", "idle"}
          /\ pc = "load_tools" => load_attempt \in 2..stop_after_attempt
          /\ pc = "idle" =>
                /\ load_attempt = stop_after_attempt
                /\ outcome = RaisedException(catalog_fetch[1].out.exc[1])
                /\ tools = None

\* C22 witness: the third attempt has failed and the error is raised
C22_Witness ==
    /\ LoadFailed
    /\ pc = "idle"
    /\ load_attempt = 3
    /\ outcome.kind = "raised"
    /\ outcome.exc.type = "ComposioConnectionError"

\* the turn budget the caller asks for with the argument
RequestedBudget(arg) == IF arg = None THEN agent_max_turns ELSE arg[1]

\* C23: the turn budget of a query is the max_turns value the caller passes
\* whenever one is passed and the configured default only when none is
\* passed; a query called with max_turns = 0 has a budget of 0.
C23_BudgetIsArgument ==
    [][\A arg \in MaxTurnsArgs : Query(arg) => max_turns' = RequestedBudget(arg)]_vars

\* C24: every query terminates: its model calls are within the turn budget,
\* a tool request is executed remotely at most 3 times, a query in progress
\* comes to its end, and a query whose loop has started ends with a response
\* (a final text, the sentinel or an error response).
C24_QueryTerminates ==
    /\ [](call = "query" => /\ model_calls <= max_turns
                            /\ inv.executions <= stop_after_attempt
                            /\ inv.attempt_number <= stop_after_attempt)
    /\ (call = "query" /\ pc # "idle") ~> (call = "query" /\ pc = "idle")
    /\ (pc = "await_model") ~> (call = "query" /\ pc = "idle" /\ outcome.kind = "returned")

\* C24 witness: a query has ended after using up its budget of 2 turns, its
\* last tool request executed 3 times
C24_Witness ==
    /\ call = "query"
    /\ pc = "idle"
    /\ outcome.kind = "returned"
    /\ max_turns = 2
    /\ model_calls = 2
    /\ inv.executions = 3

\* the handles of the agent are all set
HandlesSet == composio # None /\ tools # None /\ anthropic_client # None

\* setup goes on to load the catalog only with a connected account in hand
LoadsOnlyConnected ==
    (pc # "load_tools" /\ pc' = "load_tools") =>
        (conn'.connected_account # None /\ composio' # None)

\* the agent becomes set up only by the step that ends the catalog load
SetUpOnlyAfterLoad == (~ is_setup /\ is_setup') => (pc = "load_tools" /\ HandlesSet')

\* C25: is_setup implies that the connection check has returned a connected
\* account and that the three handles are set; a setup that raises leaves
\* is_setup false; the model is called and tools are executed by the agent
\* only when is_setup is true.
C25_SetUpMeansReady ==
    /\ [](is_setup => HandlesSet)
    /\ []((call \in {"setup", "query"} /\ outcome.kind = "raised") => ~ is_setup)
    /\ []((call \in {"setup", "query"}
             /\ (pc \in {"await_model", "exec_tools"} \/ model_calls > 0 \/ tool_calls > 0))
            => is_setup)
    /\ [][LoadsOnlyConnected /\ SetUpOnlyAfterLoad]_vars

\* C25 witness: a query has set the agent up, after an OAuth wait and a
\* repeated catalog load, and now executes a tool
C25_Witness ==
    /\ is_setup
    /\ HandlesSet
    /\ call = "query"
    /\ pc = "exec_tools"
    /\ load_attempt = 2
    /\ inv.executions >= 1

\* C26: ensure_google_meet_connection starts an OAuth flow exactly when it
\* finds no active connection of the app: a connection found is of the app
\* and is returned with no initiate and no wait; otherwise initiate_oauth is
\* called once and, after it, wait_for_connection once, and the function
\* returns only with the connected account the wait has produced.
C26_OAuthExactlyWithoutConnection ==
    conn.listed =>
        /\ conn.initiated = (IF conn.existing = None THEN 1 ELSE 0)
        /\ conn.waited <= conn.initiated
        /\ pc = "oauth_wait" => (conn.initiated = 1 /\ conn.waited = 0)
        /\ pc = "load_tools" => conn.connected_account # None
        /\ conn.existing # None =>
              /\ LowerApp[conn.existing[1].app] = GOOGLEMEET_APP_NAME
              /\ conn.waited = 0
              /\ conn.connected_account = conn.existing
              /\ pc = "load_tools"
        /\ (conn.existing = None /\ pc = "load_tools") => conn.waited = 1
        /\ (conn.existing = None /\ conn.connected_account # None) =>
              (conn.waited = 1 /\ pc = "load_tools")

\* C26 witness: no connection was found, the flow was initiated, the wait
\* has produced an account and the function has returned
C26_Witness ==
    /\ conn.listed
    /\ ~ conn.listing_raises
    /\ conn.existing = None
    /\ conn.initiated = 1
    /\ conn.waited = 1
    /\ conn.connected_account # None
    /\ pc = "load_tools"

\* the message of a failure of the wait mentions the word, in any case
Mentions(message, word) == Contains(Lower(message), word)

MentionsTimeout(message) == Mentions(message, "timeout") \/ Mentions(message, "timed out")

\* the wait of the connection check has been made and has ended this way
WaitEnded == conn.waited = 1 /\ conn.wait_outcome # None

\* C27: wait_for_connection returns a connected account or raises
\* OAuthTimeoutError, ConnectionExpiredError or ComposioConnectionError,
\* never an absent account; a wait that yields no account raises
\* OAuthTimeoutError, and so does a failure whose message mentions a timeout,
\* whether or not it mentions an expiry as well.
C27_WaitReturnsAccountOrRaises ==
    WaitEnded =>
        LET w == conn.wait_outcome[1] IN
        /\ pc \in {"load_tools", "idle"}
        /\ pc = "load_tools" => (w.kind = "account" /\ conn.connected_account # None)
        /\ pc = "idle" =>
              /\ conn.connected_account = None
              /\ outcome.kind = "raised"
              /\ outcome.exc.type \in
                     {"OAuthTimeoutError", "ConnectionExpiredError", "ComposioConnectionError"}
        /\ w.kind = "none" => (pc = "idle" /\ outcome.exc.type = "OAuthTimeoutError")
        /\ (w.kind = "raise" /\ MentionsTimeout(w.message)) =>
              (pc = "idle" /\ outcome.exc.type = "OAuthTimeoutError")
        /\ (w.kind = "raise" /\ ~ MentionsTimeout(w.message) /\ Mentions(w.message, "expired")) =>
              (pc = "idle" /\ outcome.exc.type = "ConnectionExpiredError")

\* C27 witness: the wait has failed with a message that mentions both an
\* expiry and a timeout
C27_Witness ==
    /\ WaitEnded
    /\ conn.wait_outcome[1].kind = "raise"
    /\ MentionsTimeout(conn.wait_outcome[1].message)
    /\ Mentions(conn.wait_outcome[1].message, "expired")
    /\ outcome.kind = "raised"
    /\ outcome.exc.type = "OAuthTimeoutError"

\* the last attempt was answered with a result that carries an error
InBandError ==
    /\ Invoked
    /\ inv.exec # None
    /\ inv.exec[1].kind = "dict"
    /\ "error" \in DOMAIN inv.exec[1].result
    /\ inv.exec[1].result["error"] # ""

\* C28: a result with a non-empty error field ends the invocation with the
\* GoogleMeetAPIError "API Error: <error>" without status code, whatever the
\* error says, and no attempt follows it; what the invoker returns has
\* success = true.
C28_InBandErrorRaisedUnclassified ==
    /\ InBandError =>
          /\ inv.status = "raised"
          /\ FailedWith = Some(GoogleMeetAPIError(
                 "API Error: " \o inv.exec[1].result["error"], NoStatus))
          /\ Len(inv.waits) = inv.attempt_number - 1
    /\ inv.status = "returned" =>
          /\ inv.result[1].exc = None
          /\ inv.result[1].ret[1].success = TRUE
    /\ (call = "tool" /\ pc = "idle" /\ outcome.kind = "returned") =>
          outcome.value.success = TRUE

\* C28 witness: the first attempt was answered with a result whose error
\* speaks of a rate limit, and the invocation has raised
C28_Witness ==
    /\ InBandError
    /\ inv.exec[1].result["error"] = "quota: 429 rate limit"
    /\ inv.attempt_number = 1
    /\ call = "tool"
    /\ pc = "idle"
    /\ outcome.kind = "raised"
    /\ outcome.exc.type = "GoogleMeetAPIError"

\* the last attempt has fetched the content of a download and the fetch failed
FetchFailed ==
    /\ Invoked
    /\ inv.net # None
    /\ inv.net[1].kind # "ok"

\* the text fetch_file_content_from_url hands back for a failed fetch
FetchErrorText ==
    IF inv.net[1].kind = "URLError" THEN "Error fetching content: <urlopen error timed out>"
    ELSE "Error: HTTP Error 403: Forbidden"

\* C29: a download whose content fetch fails still returns success = true:
\* file_content holds the error text of the fetch, content_fetched is true,
\* the temporary location is gone from the payload, nothing is raised and no
\* attempt follows.
C29_FailedFetchReturnsErrorText ==
    FetchFailed =>
        /\ inv.status = "returned"
        /\ inv.result[1].exc = None
        /\ inv.result[1].ret[1].success = TRUE
        /\ Payload["file_content"] = FetchErrorText
        /\ Payload["content_fetched"] = TRUE
        /\ ~ HoldsLocation(Payload)
        /\ Len(inv.waits) = inv.attempt_number - 1
        /\ (call = "tool" /\ pc = "idle") => outcome.kind = "returned"

\* C29 witness: the fetch of a download has timed out and the call has returned
C29_Witness ==
    /\ FetchFailed
    /\ inv.net[1].kind = "URLError"
    /\ call = "tool"
    /\ pc = "idle"
    /\ outcome.kind = "returned"
    /\ outcome.value.data["content_fetched"] = TRUE

NoConnectionMessages ==
    { "No active Google Drive connection found. Please set up Google Drive integration.",
      "No active Google Meet connection found. Please run setup first." }

\* C30: a failure of the listing of the connected accounts is not raised as
\* such.  In the tool invoker the attempt finds no account: it executes
\* nothing remotely, raises the 401 "no active connection" error and no
\* attempt follows, so an invocation whose first listing fails has made one
\* attempt.  In the connection check no connection is found and the OAuth
\* flow is initiated.
C30_ListingFailureIsNoAccount ==
    /\ (Invoked /\ inv.listing_raises) =>
          /\ inv.status = "raised"
          /\ inv.exec = None
          /\ FailedWith # None
          /\ FailedWith[1].type = "GoogleMeetAPIError"
          /\ FailedWith[1].status_code = 401
          /\ FailedWith[1].message \in NoConnectionMessages
          /\ Len(inv.waits) = inv.attempt_number - 1
          /\ Len(inv.failures) = 1 => (inv.attempt_number = 1 /\ inv.executions = 0)
          /\ (call = "tool" /\ pc = "idle") => outcome = RaisedException(FailedWith[1])
    /\ (conn.listed /\ conn.listing_raises) =>
          /\ conn.existing = None
          /\ conn.initiated = 1
          /\ pc \in {"oauth_wait", "load_tools", "idle"}
          /\ (pc = "idle" /\ conn.waited = 0) =>
                outcome = RaisedException(AuthConfigNotFoundError)

\* C30 witness: the listing has failed in the only attempt of a direct call
\* of the tool invoker, which has raised the 401 error
C30_Witness ==
    /\ Invoked
    /\ inv.listing_raises
    /\ inv.attempt_number = 1
    /\ inv.executions = 0
    /\ call = "tool"
    /\ pc = "idle"
    /\ outcome.kind = "raised"
    /\ outcome.exc.status_code = 401

====
